---- MODULE Spec2Model ----
(***************************************************************************)
(* Model of find_duplicate_images.py: main() checks the root, enumerates   *)
(* image files with find_image_files, hashes and groups them with          *)
(* find_duplicates, and reports wasted space with print_duplicates.        *)
(* The file system is the environment: a small directory tree whose        *)
(* directory modes, file contents and MD5 table are chosen in Init, and    *)
(* whose files may be removed or made unreadable while the scan runs.      *)
(***************************************************************************)
EXTENDS Integers, Sequences, FiniteSets, TLC

(* ---------------- bounds ---------------- *)

\* number of environment faults (file removed / made unreadable) per behaviour
MaxFaults == 1

\* chunk size of calculate_file_hash, scaled down from 8192 bytes so that
\* empty, partial-chunk, full-chunk and multi-chunk files all occur
chunk_size == 2

(* ---------------- the directory tree under the root ---------------- *)

Dirs == {"root", "A", "C", "B"}
Files == {"z", "a", "c", "b", "n", "s"}
Items == (Dirs \ {"root"}) \cup Files

\* directory containing each entry
parent ==
    [i \in Items |->
        CASE i \in {"z", "A", "B"} -> "root"
          [] i \in {"a", "C"} -> "A"
          [] i \in {"c", "n"} -> "C"
          [] OTHER -> "B"]

\* final path component of each entry, as a sequence of characters
name ==
    [i \in Items |->
        CASE i = "z" -> <<"z", ".", "j", "p", "g">>
          [] i = "a" -> <<"a", ".", "J", "P", "G">>
          [] i = "c" -> <<"c", ".", "P", "n", "g">>
          [] i = "b" -> <<"b", ".", "g", "i", "f">>
          [] i = "n" -> <<"n", ".", "t", "x", "t">>
          [] i = "s" -> <<".", "s", "v", "g">>
          [] i = "A" -> <<"A">>
          [] i = "C" -> <<"C">>
          [] OTHER -> <<"B", ".", "b", "m", "p">>]

\* the orders in which rglob can walk the directories: a directory before
\* its subdirectories, siblings in the order scandir happens to list them
DirOrders == {<<"root", "A", "C", "B">>, <<"root", "B", "A", "C">>}

\* file contents (byte strings)
Contents == {<< >>, <<7, 8>>, <<7, 8, 9>>}

\* the files whose content the scan can read
ContentFiles == {"z", "a", "c", "b"}

None == "None"
Digests == {"d0", "d1", "d2"}

\* MD5 as a deterministic function of the bytes fed to it: one table without
\* collisions and one in which two contents of different length collide
Md5Tables ==
    { [x \in Contents |->
          IF x = << >> THEN "d0" ELSE IF x = <<7, 8>> THEN "d1" ELSE "d2"],
      [x \in Contents |-> IF x = << >> THEN "d0" ELSE "d1"] }

\* directory access modes: "rx" list and search, "r" list only (entries
\* cannot be stat-ed), "none" cannot be opened
DModes ==
    { [d \in Dirs \ {"root"} |-> IF d = "A" THEN m ELSE "rx"] :
        m \in {"rx", "r", "none"} }

VARIABLES
    rootExists,     \* downloads_folder.exists()
    dmode,          \* access mode of each directory
    content,        \* bytes of each file
    md5,            \* the digest table
    fstate,         \* "ok", "denied" (open fails), "gone" (removed)
    faults,         \* number of environment faults so far
    modified,       \* the tree changed after the first scan started
    pc,             \* position of main()
    run,            \* 1 for the first scan, 2 for the rescan
    prev,           \* result of the first scan
    dirs_todo,      \* directories rglob still has to list
    yielded,        \* entries of the current directory already yielded
    image_files,    \* list built by find_image_files
    diag,           \* diagnostics printed so far
    idx,            \* loop index of find_duplicates
    attempts,       \* how often each file was opened for hashing
    unread,         \* files whose open/read raised OSError during hashing
    hash_to_files,  \* ordered dict digest -> list of files
    duplicates,     \* dict returned by find_duplicates
    gi,             \* loop index of print_duplicates
    report,         \* groups printed so far
    total_wasted_space

vars == <<rootExists, dmode, content, md5, fstate, faults, modified, pc, run,
          prev, dirs_todo, yielded, image_files, diag, idx, attempts, unread,
          hash_to_files, duplicates, gi, report, total_wasted_space>>

config == <<rootExists, dmode, content, md5>>
scan == <<dirs_todo, yielded, image_files, diag, idx, attempts, unread,
          hash_to_files, duplicates, gi, report, total_wasted_space>>

(* ---------------- pure helpers ---------------- *)

UPPERCASE == <<"A", "B", "C", "D", "E", "F", "G", "H", "I", "J", "K", "L", "M",
               "N", "O", "P", "Q", "R", "S", "T", "U", "V", "W", "X", "Y", "Z">>
LOWERCASE == <<"a", "b", "c", "d", "e", "f", "g", "h", "i", "j", "k", "l", "m",
               "n", "o", "p", "q", "r", "s", "t", "u", "v", "w", "x", "y", "z">>

\* code point of a character (only ".", A-Z and a-z occur in names)
ord(ch) ==
    IF ch = "." THEN 46
    ELSE IF \E k \in 1..26 : UPPERCASE[k] = ch
         THEN 64 + (CHOOSE k \in 1..26 : UPPERCASE[k] = ch)
         ELSE 96 + (CHOOSE k \in 1..26 : LOWERCASE[k] = ch)

\* str.lower()
lower(str) ==
    [k \in 1..Len(str) |->
        IF \E u \in 1..26 : UPPERCASE[u] = str[k]
        THEN LOWERCASE[CHOOSE u \in 1..26 : UPPERCASE[u] = str[k]]
        ELSE str[k]]

\* str.rfind("."), 0-based, -1 when there is no dot
rfind_dot(str) ==
    IF \E k \in 1..Len(str) : str[k] = "."
    THEN (CHOOSE k \in 1..Len(str) :
             str[k] = "." /\ \A j \in (k+1)..Len(str) : str[j] # ".") - 1
    ELSE -1

\* Path.suffix: the text from the last dot, unless the dot is first or last
suffix(i) ==
    LET nm == name[i]
        d  == rfind_dot(nm)
    IN IF 0 < d /\ d < Len(nm) - 1 THEN SubSeq(nm, d + 1, Len(nm)) ELSE << >>

IMAGE_EXTENSIONS ==
    { <<".", "j", "p", "g">>, <<".", "j", "p", "e", "g">>, <<".", "p", "n", "g">>,
      <<".", "g", "i", "f">>, <<".", "b", "m", "p">>, <<".", "w", "e", "b", "p">>,
      <<".", "t", "i", "f", "f">>, <<".", "t", "i", "f">>, <<".", "i", "c", "o">>,
      <<".", "s", "v", "g">> }

\* a directory is searchable when it and all its ancestors grant search
RECURSIVE Searchable(_)
Searchable(d) ==
    IF d = "root" THEN TRUE ELSE dmode[d] = "rx" /\ Searchable(parent[d])

\* os.scandir(d) succeeds: read permission on d, search on its ancestors
CanList(d) ==
    IF d = "root" THEN TRUE ELSE dmode[d] \in {"rx", "r"} /\ Searchable(parent[d])

\* os.stat(i) succeeds or fails with PermissionError
CanStat(i) == Searchable(parent[i])

\* the entry is present on disk
Exists(i) == IF i \in Dirs THEN TRUE ELSE fstate[i] # "gone"

\* Path.is_file() when stat succeeds (a missing file answers False)
is_file(i) == i \in Files /\ fstate[i] # "gone"

\* the filter of the enumeration loop
IsImage(i) == is_file(i) /\ lower(suffix(i)) \in IMAGE_EXTENSIONS

\* path from the root as a sequence of components
RECURSIVE PathOf(_)
PathOf(i) == IF parent[i] = "root" THEN <<name[i]>> ELSE Append(PathOf(parent[i]), name[i])

\* lexicographic order on strings by code point
RECURSIVE StrLess(_, _)
StrLess(s, t) ==
    IF s = << >> THEN t # << >>
    ELSE IF t = << >> THEN FALSE
    ELSE IF ord(Head(s)) # ord(Head(t)) THEN ord(Head(s)) < ord(Head(t))
    ELSE StrLess(Tail(s), Tail(t))

\* order of Path objects: component by component
RECURSIVE PathLess(_, _)
PathLess(p, q) ==
    IF p = << >> THEN q # << >>
    ELSE IF q = << >> THEN FALSE
    ELSE IF Head(p) # Head(q) THEN StrLess(Head(p), Head(q))
    ELSE PathLess(Tail(p), Tail(q))

\* sorted(files)
RECURSIVE sorted(_)
sorted(files) ==
    IF files = << >> THEN << >>
    ELSE LET m == CHOOSE k \in 1..Len(files) :
                     \A j \in 1..Len(files) : ~PathLess(PathOf(files[j]), PathOf(files[k]))
             rest == [j \in 1..(Len(files) - 1) |-> IF j < m THEN files[j] ELSE files[j + 1]]
         IN <<files[m]>> \o sorted(rest)

(* ---------------- calculate_file_hash ---------------- *)

\* f.read(chunk_size) at offset pos
read(data, pos) ==
    SubSeq(data, pos + 1, IF pos + chunk_size < Len(data) THEN pos + chunk_size ELSE Len(data))

\* hash_md5.update(chunk): the digest state is the bytes fed so far
update(st, chunk) == st \o chunk

\* variant: a single read instead of the loop
read_loop_first_chunk(data, pos, st) == update(st, read(data, pos))

\* while chunk := f.read(chunk_size): hash_md5.update(chunk)
RECURSIVE read_loop(_, _, _)
read_loop(data, pos, st) ==
    LET chunk == read(data, pos)
    IN IF chunk = << >> THEN st
       ELSE read_loop(data, pos + Len(chunk), update(st, chunk))

\* hash_md5.hexdigest()
hexdigest(st) == md5[st]

\* variant: the handler returns the digest of what was read before the error
calculate_file_hash_partial(f) ==
    hexdigest(read_loop(IF fstate[f] = "ok" THEN content[f] ELSE << >>, 0, << >>))

\* the digest of the file, or None when open/read raises OSError
calculate_file_hash(f) ==
    IF fstate[f] = "ok" THEN hexdigest(read_loop(content[f], 0, << >>)) ELSE None

(* ---------------- find_duplicates helpers ---------------- *)

\* keys of an ordered dict kept as a sequence of [hash, files] records
Keys(d) == {d[k].hash : k \in 1..Len(d)}

\* variant: the list of an existing key is replaced instead of extended
dict_append_fresh(d, h, f) ==
    IF h \in Keys(d)
    THEN [k \in 1..Len(d) |->
            IF d[k].hash = h THEN [hash |-> h, files |-> <<f>>] ELSE d[k]]
    ELSE Append(d, [hash |-> h, files |-> <<f>>])

\* hash_to_files[file_hash].append(file_path) on a defaultdict(list)
dict_append(d, h, f) ==
    IF h \in Keys(d)
    THEN [k \in 1..Len(d) |->
            IF d[k].hash = h THEN [hash |-> h, files |-> Append(d[k].files, f)] ELSE d[k]]
    ELSE Append(d, [hash |-> h, files |-> <<f>>])

\* variant: the filter keeps every non-empty list
RECURSIVE only_duplicates_nonempty(_)
only_duplicates_nonempty(d) ==
    IF d = << >> THEN << >>
    ELSE IF Len(Head(d).files) > 0
         THEN <<Head(d)>> \o only_duplicates_nonempty(Tail(d))
         ELSE only_duplicates_nonempty(Tail(d))

\* {h: files for h, files in hash_to_files.items() if len(files) > 1}
RECURSIVE only_duplicates(_)
only_duplicates(d) ==
    IF d = << >> THEN << >>
    ELSE IF Len(Head(d).files) > 1
         THEN <<Head(d)>> \o only_duplicates(Tail(d))
         ELSE only_duplicates(Tail(d))

(* ---------------- print_duplicates helpers ---------------- *)

\* files[0].stat().st_size
st_size(f) == Len(content[f])

\* variant: the size is taken from the first member in display order
wasted_space_sorted_first(files) == st_size(sorted(files)[1]) * (Len(files) - 1)

\* file_size * (len(files) - 1) with file_size taken from files[0]
wasted_space_of(files) == st_size(files[1]) * (Len(files) - 1)

(* ---------------- state machine ---------------- *)

NoResult == [valid |-> FALSE, groups |-> {}, total |-> 0]

\* elements of a list
Range(seq) == {seq[k] : k \in 1..Len(seq)}

\* the groups of a result as a set of sets of files
GroupSets(d) == {Range(d[k].files) : k \in 1..Len(d)}

\* entries of directory d
Children(d) == {i \in Items : parent[i] = d}

ScanInit ==
    /\ dirs_todo = << >>
    /\ yielded = {}
    /\ image_files = << >>
    /\ diag = {}
    /\ idx = 0
    /\ attempts = [f \in Files |-> 0]
    /\ unread = {}
    /\ hash_to_files = << >>
    /\ duplicates = << >>
    /\ gi = 0
    /\ report = << >>
    /\ total_wasted_space = 0

Init ==
    /\ rootExists \in BOOLEAN
    /\ dmode \in DModes
    /\ content \in [ContentFiles -> Contents]
    /\ md5 \in Md5Tables
    /\ fstate = [f \in Files |-> "ok"]
    /\ faults = 0
    /\ modified = FALSE
    /\ pc = "main"
    /\ run = 1
    /\ prev = NoResult
    /\ ScanInit

\* main(): a missing root ends the program with exit status 1
MainRootMissing ==
    /\ pc = "main"
    /\ ~rootExists
    /\ pc' = "exit1"
    /\ UNCHANGED <<config, fstate, faults, modified, run, prev, scan>>

\* main() calls find_image_files, which starts directory.rglob('*')
MainEnumerate ==
    /\ pc = "main"
    /\ rootExists
    /\ pc' = "enum"
    /\ dirs_todo' \in DirOrders
    /\ UNCHANGED <<config, fstate, faults, modified, run, prev, yielded,
                   image_files, diag, idx, attempts, unread, hash_to_files, duplicates,
                   gi, report, total_wasted_space>>

\* rglob: a directory that cannot be listed is passed over silently
EnumSkipDir ==
    /\ pc = "enum"
    /\ dirs_todo # << >>
    /\ ~CanList(Head(dirs_todo))
    /\ dirs_todo' = Tail(dirs_todo)
    /\ yielded' = {}
    /\ UNCHANGED <<config, fstate, faults, modified, pc, run, prev,
                   image_files, diag, idx, attempts, unread, hash_to_files, duplicates,
                   gi, report, total_wasted_space>>

\* rglob: every entry of the current directory has been yielded
EnumNextDir ==
    /\ pc = "enum"
    /\ dirs_todo # << >>
    /\ CanList(Head(dirs_todo))
    /\ \A i \in Children(Head(dirs_todo)) : Exists(i) => i \in yielded
    /\ dirs_todo' = Tail(dirs_todo)
    /\ yielded' = {}
    /\ UNCHANGED <<config, fstate, faults, modified, pc, run, prev,
                   image_files, diag, idx, attempts, unread, hash_to_files, duplicates,
                   gi, report, total_wasted_space>>

\* one iteration of the loop: the item passes or fails the filter
EnumItem(i) ==
    /\ pc = "enum"
    /\ dirs_todo # << >>
    /\ CanList(Head(dirs_todo))
    /\ i \in Children(Head(dirs_todo)) \ yielded
    /\ Exists(i)
    /\ CanStat(i)
    /\ yielded' = yielded \cup {i}
    /\ image_files' = IF IsImage(i) THEN Append(image_files, i) ELSE image_files
    /\ UNCHANGED <<config, fstate, faults, modified, pc, run, prev, dirs_todo,
                   diag, idx, attempts, unread, hash_to_files, duplicates,
                   gi, report, total_wasted_space>>

\* item.is_file() raises PermissionError: the handler around the loop
\* prints the diagnostic and the loop is over
EnumDenied(i) ==
    /\ pc = "enum"
    /\ dirs_todo # << >>
    /\ CanList(Head(dirs_todo))
    /\ i \in Children(Head(dirs_todo)) \ yielded
    /\ Exists(i)
    /\ ~CanStat(i)
    /\ diag' = diag \cup {[kind |-> "access", item |-> i]}
    /\ dirs_todo' = << >>
    /\ yielded' = {}
    /\ UNCHANGED <<config, fstate, faults, modified, pc, run, prev,
                   image_files, idx, attempts, unread, hash_to_files, duplicates,
                   gi, report, total_wasted_space>>

\* find_image_files returns; main() exits with status 0 on an empty list
EnumReturn ==
    /\ pc = "enum"
    /\ dirs_todo = << >>
    /\ pc' = IF image_files = << >> THEN "exit0" ELSE "hash"
    /\ UNCHANGED <<config, fstate, faults, modified, run, prev, scan>>

\* variant: the result of calculate_file_hash is not tested
Truthy_always(h) == TRUE

\* if file_hash:
Truthy(h) == h # None /\ h # ""

\* one iteration of the loop of find_duplicates
HashFile ==
    /\ pc = "hash"
    /\ idx < Len(image_files)
    /\ LET file_path == image_files[idx + 1]
           file_hash == calculate_file_hash(file_path)
       IN /\ attempts' = [attempts EXCEPT ![file_path] = @ + 1]
          /\ unread' = IF fstate[file_path] = "ok" THEN unread
                       ELSE unread \cup {file_path}
          /\ hash_to_files' = IF Truthy(file_hash)
                              THEN dict_append(hash_to_files, file_hash, file_path)
                              ELSE hash_to_files
          /\ diag' = IF file_hash = None
                     THEN diag \cup {[kind |-> "read", item |-> file_path]}
                     ELSE diag
    /\ idx' = idx + 1
    /\ UNCHANGED <<config, fstate, faults, modified, pc, run, prev, dirs_todo,
                   yielded, image_files, duplicates, gi, report,
                   total_wasted_space>>

\* find_duplicates returns the filtered dict; print_duplicates starts and
\* returns at once when the dict is empty
HashReturn ==
    /\ pc = "hash"
    /\ idx = Len(image_files)
    /\ duplicates' = only_duplicates(hash_to_files)
    /\ pc' = IF only_duplicates(hash_to_files) = << >> THEN "done" ELSE "report"
    /\ UNCHANGED <<config, fstate, faults, modified, run, prev, dirs_todo,
                   yielded, image_files, diag, idx, attempts, unread, hash_to_files,
                   gi, report, total_wasted_space>>

\* one iteration of the loop of print_duplicates
ReportGroup ==
    /\ pc = "report"
    /\ gi < Len(duplicates)
    /\ fstate[duplicates[gi + 1].files[1]] # "gone"
    /\ LET files == duplicates[gi + 1].files
           wasted_space == wasted_space_of(files)
       IN /\ report' = Append(report,
                 [hash |-> duplicates[gi + 1].hash, copies |-> Len(files),
                  file_size |-> st_size(files[1]), wasted |-> wasted_space,
                  shown |-> sorted(files)])
          /\ total_wasted_space' = total_wasted_space + wasted_space
    /\ gi' = gi + 1
    /\ UNCHANGED <<config, fstate, faults, modified, pc, run, prev, dirs_todo,
                   yielded, image_files, diag, idx, attempts, unread, hash_to_files,
                   duplicates>>

\* files[0].stat() raises FileNotFoundError, which nothing catches
ReportCrash ==
    /\ pc = "report"
    /\ gi < Len(duplicates)
    /\ fstate[duplicates[gi + 1].files[1]] = "gone"
    /\ pc' = "crashed"
    /\ UNCHANGED <<config, fstate, faults, modified, run, prev, scan>>

\* print_duplicates prints the total and main() prints "Scan complete"
ReportDone ==
    /\ pc = "report"
    /\ gi = Len(duplicates)
    /\ pc' = "done"
    /\ UNCHANGED <<config, fstate, faults, modified, run, prev, scan>>

\* environment: a file is removed before the scan or between its steps
FileRemoved(f) ==
    /\ run = 1
    /\ rootExists
    /\ pc \in {"main", "hash", "report"}
    /\ faults < MaxFaults
    /\ fstate[f] = "ok"
    /\ fstate' = [fstate EXCEPT ![f] = "gone"]
    /\ faults' = faults + 1
    /\ modified' = (modified \/ pc # "main")
    /\ UNCHANGED <<config, pc, run, prev, scan>>

\* environment: a file becomes unreadable (open raises PermissionError)
FileDenied(f) ==
    /\ run = 1
    /\ rootExists
    /\ pc \in {"main", "hash", "report"}
    /\ faults < MaxFaults
    /\ fstate[f] = "ok"
    /\ fstate' = [fstate EXCEPT ![f] = "denied"]
    /\ faults' = faults + 1
    /\ modified' = (modified \/ pc # "main")
    /\ UNCHANGED <<config, pc, run, prev, scan>>

\* the program is run a second time over the tree it left unmodified
Rescan ==
    /\ run = 1
    /\ ~modified
    /\ pc \in {"done", "exit0"}
    /\ prev' = [valid |-> TRUE, groups |-> GroupSets(duplicates),
                total |-> total_wasted_space]
    /\ run' = 2
    /\ pc' = "main"
    /\ dirs_todo' = << >>
    /\ yielded' = {}
    /\ image_files' = << >>
    /\ diag' = {}
    /\ idx' = 0
    /\ attempts' = [f \in Files |-> 0]
    /\ unread' = {}
    /\ hash_to_files' = << >>
    /\ duplicates' = << >>
    /\ gi' = 0
    /\ report' = << >>
    /\ total_wasted_space' = 0
    /\ UNCHANGED <<config, fstate, faults, modified>>

Next ==
    \/ MainRootMissing
    \/ MainEnumerate
    \/ EnumSkipDir
    \/ EnumNextDir
    \/ \E i \in Items : EnumItem(i)
    \/ \E i \in Items : EnumDenied(i)
    \/ EnumReturn
    \/ HashFile
    \/ HashReturn
    \/ ReportGroup
    \/ ReportCrash
    \/ ReportDone
    \/ \E f \in ContentFiles : FileRemoved(f)
    \/ \E f \in ContentFiles : FileDenied(f)
    \/ Rescan

Spec == Init /\ [][Next]_vars

(* ---------------- vocabulary of the properties ---------------- *)

\* find_image_files has returned in the current scan
Enumerated == pc \in {"hash", "report", "done", "crashed", "exit0"}

\* find_duplicates has returned in the current scan
Grouped == pc \in {"report", "done", "crashed"}

\* files the current scan hashed successfully
Hashed == {image_files[k] : k \in 1..idx} \ unread

\* the digest of the whole content of a file
DigestOf(f) == md5[content[f]]

\* the digest table has no collision
NoCollision == \A x, y \in Contents : md5[x] = md5[y] => x = y

\* f is a member of some group of the result
InGroup(f) == \E k \in 1..Len(duplicates) : f \in Range(duplicates[k].files)

\* position of f in the input list
Pos(f) == CHOOSE k \in 1..Len(image_files) : image_files[k] = f

\* every directory on the way to the entry can be listed and searched
Accessible(i) == CanStat(i) /\ CanList(parent[i])

\* the entry is a regular file whose extension, lower-cased, is allow-listed
HasImageExtension(i) ==
    /\ i \in Files
    /\ \E e \in IMAGE_EXTENSIONS :
          /\ Len(name[i]) > Len(e)
          /\ lower(SubSeq(name[i], Len(name[i]) - Len(e) + 1, Len(name[i]))) = e
          /\ \A k \in 2..Len(e) : e[k] # "."

RECURSIVE SumWasted(_)
SumWasted(rep) == IF rep = << >> THEN 0 ELSE Head(rep).wasted + SumWasted(Tail(rep))

(* ---------------- C1 ---------------- *)

\* the case of C1: all image files have the same content, exactly one of
\* them could not be read during hashing, the others stay readable
C1Case ==
    /\ Grouped
    /\ Cardinality(unread) = 1
    /\ \A f, g \in Range(image_files) : content[f] = content[g]
    /\ \A f \in Range(image_files) \ unread : fstate[f] = "ok"

\* C1: when one file among N identical image files cannot be read during
\* hashing, the scan does not fail, the unreadable file is in no group, the
\* group (when at least two files remain) holds exactly the readable files,
\* and a diagnostic names the unreadable file.
C1_UnreadableFileExcluded ==
    C1Case =>
        /\ pc # "crashed"
        /\ \A f \in unread :
              /\ ~InGroup(f)
              /\ [kind |-> "read", item |-> f] \in diag
        /\ Len(image_files) >= 3 =>
              GroupSets(duplicates) = {Range(image_files) \ unread}

C1_Witness ==
    /\ C1Case
    /\ pc = "done"
    /\ Len(image_files) >= 3
    /\ Len(duplicates) = 1

(* ---------------- C2 ---------------- *)

\* C2: when a directory cannot be read, only its subtree is skipped: every
\* image file outside the inaccessible subtrees is returned by
\* find_image_files.
C2_SiblingsStillEnumerated ==
    (Enumerated /\ ~modified) =>
        \A i \in Files :
            (Accessible(i) /\ IsImage(i)) => i \in Range(image_files)

(* ---------------- C3 ---------------- *)

\* C3: after the root-existence check no I/O failure propagates as an
\* uncaught error: the program never dies of an exception.
C3_NoUncaughtError == pc # "crashed"

(* ---------------- C4 ---------------- *)

\* C4: any two successfully hashed files with identical content (empty
\* content included) are members of one and the same group, and of no other.
C4_IdenticalContentShareOneGroup ==
    Grouped =>
        \A f, g \in Hashed :
            (f # g /\ content[f] = content[g]) =>
                /\ \E k \in 1..Len(duplicates) :
                      {f, g} \subseteq Range(duplicates[k].files)
                /\ Cardinality({k \in 1..Len(duplicates) :
                                   f \in Range(duplicates[k].files)}) = 1

C4_Witness ==
    /\ pc = "done"
    /\ {"z", "c"} \subseteq Hashed
    /\ content["z"] = << >>
    /\ content["c"] = << >>
    /\ \E k \in 1..Len(duplicates) : {"z", "c"} \subseteq Range(duplicates[k].files)

(* ---------------- C5 ---------------- *)

\* C5: without digest collisions, two files in the same group have the same
\* content, and a file whose content no other hashed file shares is in no
\* group.
C5_DistinctContentNeverGrouped ==
    (Grouped /\ NoCollision) =>
        /\ \A k \in 1..Len(duplicates) :
              \A f, g \in Range(duplicates[k].files) : content[f] = content[g]
        /\ \A f \in Hashed :
              (\A g \in Hashed \ {f} : content[g] # content[f]) => ~InGroup(f)

C5_Witness ==
    /\ pc = "done"
    /\ NoCollision
    /\ Len(duplicates) = 1
    /\ \E f \in Hashed : ~InGroup(f) /\ content[f] = <<7, 8, 9>>
    /\ \E f \in Hashed : InGroup(f) /\ content[f] = <<7, 8>>

(* ---------------- C6 ---------------- *)

\* digests that two or more successfully hashed files share
SharedDigests ==
    {h \in Digests : Cardinality({f \in Hashed : DigestOf(f) = h}) >= 2}

\* C6: the returned mapping holds exactly the digests shared by two or more
\* successfully hashed files, every group has at least 2 members, and when
\* there is no such digest the mapping is empty and the scan ends normally.
C6_ExactlySharedDigestsRetained ==
    Grouped =>
        /\ Keys(duplicates) = SharedDigests
        /\ \A k \in 1..Len(duplicates) : Len(duplicates[k].files) >= 2
        /\ \A j, k \in 1..Len(duplicates) :
              duplicates[j].hash = duplicates[k].hash => j = k
        /\ SharedDigests = {} => (duplicates = << >> /\ pc = "done")

C6_Witness ==
    /\ pc = "done"
    /\ Len(duplicates) = 1
    /\ Cardinality(Hashed) >= 3
    /\ \E f \in Hashed : ~InGroup(f)

(* ---------------- C7 ---------------- *)

\* the member of a group that was discovered first
FirstDiscovered(files) ==
    CHOOSE f \in Range(files) : \A g \in Range(files) : Pos(f) <= Pos(g)

\* C7: each reported group's wasted space is the size of its first
\* discovered member times (member count - 1), which is s * (k - 1) for k
\* identical files of size s; the total is the sum over the reported groups,
\* and a scan that ends normally has reported every group.
C7_WastedSpace ==
    /\ Len(report) = gi
    /\ \A k \in 1..Len(report) :
          LET files == duplicates[k].files
          IN /\ report[k].wasted =
                    Len(content[FirstDiscovered(files)]) * (Cardinality(Range(files)) - 1)
             /\ (\A f, g \in Range(files) : Len(content[f]) = Len(content[g])) =>
                    \A f \in Range(files) :
                        report[k].wasted = Len(content[f]) * (Len(files) - 1)
    /\ total_wasted_space = SumWasted(report)
    /\ (pc = "done" /\ Grouped) => Len(report) = Len(duplicates)

C7_Witness ==
    /\ pc = "done"
    /\ Len(report) = 2
    /\ \E k \in 1..Len(report) :
          /\ sorted(duplicates[k].files)[1] # duplicates[k].files[1]
          /\ st_size(sorted(duplicates[k].files)[1]) # st_size(duplicates[k].files[1])
          /\ report[k].wasted > 0

(* ---------------- C8 ---------------- *)

\* C8: find_image_files returns exactly the regular files under the root
\* whose lower-cased extension is allow-listed (directories that cannot be
\* opened hide their own files, as the enumerator's error policy says).
C8_ExactlyImageFilesReturned ==
    (Enumerated /\ ~modified) =>
        Range(image_files) =
            {i \in Files : Exists(i) /\ HasImageExtension(i) /\ Accessible(i)}

(* ---------------- C9 ---------------- *)

\* C9: a second scan of the unmodified tree yields the same groups and the
\* same total wasted space as the first, whatever the enumeration order.
C9_RescanIdentical ==
    (run = 2 /\ pc \in {"done", "exit0"} /\ NoCollision) =>
        /\ GroupSets(duplicates) = prev.groups
        /\ total_wasted_space = prev.total

(* ---------------- C10 ---------------- *)

\* the lists of an ordered dict are disjoint, hold only successfully hashed
\* input files, each at most once, in input order
WellFormed(d) ==
    /\ \A k \in 1..Len(d) : Range(d[k].files) \subseteq Hashed
    /\ \A j, k \in 1..Len(d) :
          j # k => Range(d[j].files) \cap Range(d[k].files) = {}
    /\ \A k \in 1..Len(d) :
          \A m, n \in 1..Len(d[k].files) :
              m < n => Pos(d[k].files[m]) < Pos(d[k].files[n])

\* C10: at every step of find_duplicates and in its result the groups are
\* disjoint, contain only input files whose hash succeeded, each at most
\* once and in discovery order; every processed file was hashed exactly once
\* and every successfully hashed file sits in exactly one list.
C10_GroupsDisjointOrdered ==
    /\ WellFormed(hash_to_files)
    /\ WellFormed(duplicates)
    /\ \A f \in Files :
          attempts[f] = IF f \in {image_files[k] : k \in 1..idx} THEN 1 ELSE 0
    /\ \A f \in Hashed :
          Cardinality({k \in 1..Len(hash_to_files) :
                          f \in Range(hash_to_files[k].files)}) = 1

C10_Witness ==
    /\ pc = "hash"
    /\ idx = 4
    /\ unread # {}
    /\ Len(hash_to_files) = 2
    /\ \E k \in 1..2 : Len(hash_to_files[k].files) = 2

====
